---- MODULE Spec2Model ----
(***************************************************************************)
(* A model of scalems_workshop.subgraph: the subgraph variable editor      *)
(* (output_variable / set / get) and the while-loop compiler while_loop()  *)
(* with _translate_condition().                                            *)
(*                                                                         *)
(* One behaviour is one script: a class body that edits the variable       *)
(* `checkpoint` (set/get in any order), followed by one call of            *)
(* while_loop(operation, condition=..., max_iteration=...).                *)
(*                                                                         *)
(* The functions are modelled as written.  Nothing in the module builds a  *)
(* step log (Subgraph has no dag()), so the operation handed to while_loop *)
(* and the log its dag() returns are inputs of the call.                   *)
(***************************************************************************)
EXTENDS Integers, Sequences, FiniteSets, TLC

\* ------------------------------------------------------------------ bounds
MaxSets == 2          \* set() calls made in one class body
MaxSteps == 2         \* length of the step log returned by operation.dag()
MaxIteration == 2     \* largest max_iteration a caller passes
MaxChain == 2         \* attribute accesses chained on one SubgraphNode
MaxArgv == 5          \* elements of an argv list, the executable included
MaxMember == 3        \* elements of an argv list that is a member of an ensemble
RecursionLimit == 3   \* interpreter frames allowed to one recursive call
MaxRecords == 2       \* _ParsedArgs objects a script builds
MaxResults == 2       \* result() calls a script makes on output futures

\* ------------------------------------------------------------------ values
\* Default values given to output_variable(default=...).
Defaults == {"", "d0"}
\* A _NodeProxy chain such as md.output.checkpoint, kept symbolic.
Proxy == "md.output.checkpoint"
\* Values passed to set(update): concrete values or a deferred proxy.
Updates == {"u1", Proxy}

\* "No value": get() has not been called / add() has not been called.
NoRef == [kind |-> "none", ok |-> TRUE, substep |-> -1, referent |-> ""]

VARIABLES
    substep_value,   \* _SubgraphVariableEditor._substep_value of `checkpoint`
    default,         \* the default handed to output_variable (observation)
    written,         \* the arguments of the set() calls so far, in call order (observation)
    ref,             \* the _SubstepVariableReference returned by the last get()
    refFresh,        \* TRUE iff no set() happened since that get()
    pc,              \* position of the script
    operation,       \* the *operation* argument of while_loop
    condition,       \* the *condition* argument of while_loop
    max_iteration,   \* the *max_iteration* argument of while_loop
    variables,       \* while_loop's local `variables`
    internal_handles,\* while_loop's local `internal_handles`
    slots,           \* attributes written on _subgraph by setattr
    idx,             \* number of steps of operation.dag() consumed by the for loop
    effects,         \* the effects of the replay, in the order they happened (observation)
    stack,           \* active _translate_condition frames: the condition of each
    retval,          \* value returned by the innermost finished _translate_condition
    engineCalls,     \* the calls of gmxapi.while_loop made, with their arguments
    err,             \* the exception raised out of while_loop, or "none"
    heap,            \* the dict and subgraph objects created so far, by identity
    tables,          \* identities of the current call's variables, internal_handles, _subgraph
    first,           \* what the first of two while_loop calls built (observation)
    calls,           \* number of while_loop calls made
    node,            \* the SubgraphNode returned by add(), if any
    access,          \* the last attribute access on the node or a proxy, and its result
    invocations,     \* how often a task callable (func) has been invoked
    argv,            \* the *argv* argument of Executable.create or _parse_argv
    cmd,             \* the Executable the call works on
    parsed,          \* the _ParsedArgs returned by _parse_argv, if it returned
    records,         \* the _ParsedArgs objects built so far and their collections, by identity
    options,         \* the arguments of executable() that were not None
    results,         \* what the result() calls on output futures returned, in call order
    frames           \* active frames of a Reference.result() call

vars == <<substep_value, default, written, ref, refFresh, pc, operation, condition,
          max_iteration, variables, internal_handles, slots, idx, effects, stack,
          retval, engineCalls, err, heap, tables, first, calls, node, access,
          invocations, argv, cmd, parsed, records, options, results, frames>>

editorVars == <<substep_value, default, written, ref, refFresh>>
callVars == <<operation, condition, max_iteration>>
loopVars == <<variables, internal_handles, slots, idx, effects, stack, retval,
              engineCalls, err>>
heapVars == <<heap, tables, first, calls>>
nodeVars == <<node, access>>
useVars == <<records, options, results, frames>>
execVars == <<argv, cmd, parsed, useVars>>

\* ------------------------------------------------- _SubgraphVariableEditor
\* Mutant of EditorInit: the history starts empty.
EditorInitEmpty(d) == <<>>

\* __init__(default): the history starts with the default (subgraph.py:73).
EditorInit(d) == <<d>>

\* Mutant of EditorSet: the update replaces the latest entry instead of
\* being appended.
EditorSetOverwrite(history, update) ==
    [history EXCEPT ![Len(history)] = update]

\* set(update): self._substep_value.append(update) (subgraph.py:75-76).
EditorSet(history, update) == Append(history, update)

\* Mutant of EditorGet: the referent is read one entry too early.
EditorGetStale(history) ==
    LET substep == Len(history) - 1
    IN  [kind |-> "ref",
         ok |-> substep >= 0,
         substep |-> substep,
         referent |-> IF substep >= 1 THEN history[substep] ELSE history[1]]

\* get(): substep = len - 1; reference to the entry at that index
\* (subgraph.py:78-81).  Python index `substep` is TLA+ index substep + 1.
\* The assertion substep >= 0 is the `ok` field.
EditorGet(history) ==
    LET substep == Len(history) - 1
    IN  [kind |-> "ref",
         ok |-> substep >= 0,
         substep |-> substep,
         referent |-> IF substep >= 0 THEN history[substep + 1] ELSE ""]

\* Mutant of output_variable: the caller's default is not passed on.
output_variableNoDefault(d) == EditorInit("None")

\* output_variable(default): a _SubgraphVariableEditor (subgraph.py:139-140).
output_variable(d) == EditorInit(d)

\* ------------------------------------------------------------- step log
\* Step / AddStep / SetStep (subgraph.py:17-32) with the fields the replay reads.
\* `cls` is the dataclass of the object, `command` its Command member.
\* An AddStep's args are what the class body captured: the reference that
\* checkpoint.get() returned (or NoRef when the task takes no variable).
\* `raises` tells whether step.func raises when it is invoked.
AddStep(key, raises, args) ==
    [cls |-> "AddStep", command |-> "ADD", key |-> key, raises |-> raises,
     args |-> args, source |-> ""]

SetStep(key, source) ==
    [cls |-> "SetStep", command |-> "SET", key |-> key, raises |-> FALSE,
     args |-> NoRef, source |-> source]

\* A step object that is neither: a bare Step, or a command outside the enum.
BareStep(command) ==
    [cls |-> "Step", command |-> command, key |-> "x", raises |-> FALSE,
     args |-> NoRef, source |-> ""]

\* The steps a step log may hold, given the reference captured in the class body.
StepsWith(r) ==
    {AddStep("md", FALSE, r), AddStep("md", TRUE, r), SetStep("checkpoint", Proxy),
     BareStep("OTHER"), BareStep("ADD")}

RECURSIVE SeqsUpTo(_, _)
SeqsUpTo(S, n) ==
    IF n = 0 THEN {<<>>}
    ELSE LET shorter == SeqsUpTo(S, n - 1)
         IN  shorter \cup {Append(q, x) : q \in shorter, x \in S}

\* ------------------------------------------------------------ conditions
\* The objects handed to while_loop as *condition*, by the type tests of
\* _translate_condition: a _SubgraphVariableDescriptor, a _ConditionAnnotation,
\* or anything else (the _SubgraphVariableEditor that output_variable returns
\* is one of these: it is no descriptor).
Descriptor == [type |-> "descriptor"]
Editor == [type |-> "editor"]

\* _ConditionAnnotation(source, transformation) (subgraph.py:159-162).
ConditionAnnotation(source, transformation) ==
    [type |-> "annotation", transformation |-> transformation, source |-> source]

\* logical_not(condition) (subgraph.py:165-171).
logical_not(c) == ConditionAnnotation(c, "logical_not")

Conditions ==
    {Descriptor, Editor,
     logical_not(Descriptor), logical_not(Editor),
     ConditionAnnotation(Descriptor, "logical_and"),
     logical_not(logical_not(Descriptor))}

\* gmxapi.logical_not(x): the engine's negation of a translated condition.
GmxLogicalNot(x) == [kind |-> "value", op |-> "logical_not", arg |-> x]

NoValue == [kind |-> "none"]

\* ------------------------------------------------------------- operations
\* The *operation* argument: whether it is an instance of Subgraph, whether it
\* has a dag() method, its attributes (dir(operation)), and the step log that
\* dag() returns.
NotASubgraph ==
    [isSubgraph |-> FALSE, hasDag |-> FALSE, descriptor |-> FALSE, dag |-> <<>>]

NoDag ==
    [isSubgraph |-> TRUE, hasDag |-> FALSE, descriptor |-> FALSE, dag |-> <<>>]

Declared(descriptor, dag) ==
    [isSubgraph |-> TRUE, hasDag |-> TRUE, descriptor |-> descriptor, dag |-> dag]

OperationsWith(r) ==
    {NotASubgraph, NoDag}
    \cup {Declared(b, q) : b \in BOOLEAN, q \in SeqsUpTo(StepsWith(r), MaxSteps)}

\* dir(operation) with each attribute's class and, for a descriptor, what
\* default() returns: _default_value, which is None (subgraph.py:84-89).
\* `checkpoint` is the editor made by output_variable; `found_native`, when
\* the operation has it, is a descriptor.
Attributes(op) ==
    IF op.descriptor
    THEN [k \in {"checkpoint", "found_native"} |->
            IF k = "checkpoint" THEN [cls |-> "editor", default |-> default]
            ELSE [cls |-> "descriptor", default |-> "None"]]
    ELSE [k \in {"checkpoint"} |-> [cls |-> "editor", default |-> default]]

\* The loop over dir(operation) (subgraph.py:221-225).
Variables(op) ==
    LET attrs == Attributes(op)
        keys == {k \in DOMAIN attrs : attrs[k].cls = "descriptor"}
    IN  [k \in keys |-> attrs[k].default]

\* --------------------------------------------------------------- replay
\* Mutant of NextStep: the log is walked back to front.
NextStepReversed(dag, i) == dag[Len(dag) - i]

\* The step the for loop of while_loop takes after i steps: operation.dag()
\* is iterated front to back (subgraph.py:230).
NextStep(dag, i) == dag[i + 1]

\* step.func(*args, **kwargs): the task is instantiated with the captured
\* args as they are (the TODO at subgraph.py:233 leaves them unprocessed), so
\* its input is the reference object and the value that reference holds.
Instantiate(step) == [func |-> step.key, input |-> step.args]

\* One pass of the loop body (subgraph.py:231-242) on `step`: the exception it
\* raises ("none" when it does not), whether the step's effect took place
\* (func was invoked / the attribute was written), and the two tables after.
ReplayOne(step, handles, attrs) ==
    IF step.command = "ADD"
    THEN IF step.cls # "AddStep"
         THEN [exc |-> "AssertionError", applied |-> FALSE,
               handles |-> handles, attrs |-> attrs]
         ELSE IF step.raises
              THEN [exc |-> "TaskError", applied |-> TRUE,
                    handles |-> handles, attrs |-> attrs]
              ELSE [exc |-> "none", applied |-> TRUE,
                    handles |-> (step.key :> Instantiate(step)) @@ handles,
                    attrs |-> attrs]
    ELSE IF step.command = "SET"
         THEN IF step.cls # "SetStep"
              THEN [exc |-> "AssertionError", applied |-> FALSE,
                    handles |-> handles, attrs |-> attrs]
              ELSE [exc |-> "none", applied |-> TRUE,
                    handles |-> handles,
                    attrs |-> (step.key :> step.source) @@ attrs]
         ELSE [exc |-> "RuntimeError", applied |-> FALSE,
               handles |-> handles, attrs |-> attrs]

\* -------------------------------------------------- _translate_condition
\* The argument of the recursive call made for an annotation: the code passes
\* `condition` itself (subgraph.py:181).
RecursiveArgument(c) == c

\* Mutant of Dispatch: the test of the annotation's transformation is missing.
DispatchLenient(c) ==
    IF c.type = "descriptor"
    THEN [act |-> "raise", exc |-> "RuntimeError", arg |-> c]
    ELSE IF c.type = "annotation"
         THEN [act |-> "call", exc |-> "none", arg |-> RecursiveArgument(c)]
         ELSE [act |-> "raise", exc |-> "ValueError", arg |-> c]

\* What one activation of _translate_condition does with its argument before
\* any callee returns (subgraph.py:175-183): raise, or call itself.
Dispatch(c) ==
    IF c.type = "descriptor"
    THEN [act |-> "raise", exc |-> "RuntimeError", arg |-> c]
    ELSE IF c.type = "annotation"
         THEN IF c.transformation # "logical_not"
              THEN [act |-> "raise", exc |-> "ValueError", arg |-> c]
              ELSE [act |-> "call", exc |-> "none", arg |-> RecursiveArgument(c)]
         ELSE [act |-> "raise", exc |-> "ValueError", arg |-> c]

\* The arguments gmxapi.while_loop is called with (subgraph.py:245); the
\* _subgraph handed over carries the variables and what the replay built.
HandOff(cond) ==
    [variables |-> variables, handles |-> internal_handles, attrs |-> slots,
     condition |-> cond, max_iteration |-> max_iteration]

\* ------------------------------------------------------ objects by identity
\* Mutant of Alloc: the object is a shared one (a module-level or default
\* argument dict) instead of a new one.
AllocShared(h) == 1

\* The identity of a newly created object: `variables = {}`,
\* `internal_handles = {}` and gmxapi.subgraph(...) each make a new object on
\* every call of while_loop (subgraph.py:221, 226, 227).
Alloc(h) == Len(h) + 1

\* The heap after the object `id` has been given the contents t.
Store(h, id, t) == IF id = Len(h) + 1 THEN Append(h, t) ELSE [h EXCEPT ![id] = t]

NoTables == [variables |-> 0, handles |-> 0, subgraph |-> 0]

\* Mutant of DeclarationAfter: a SET step is written to the declaration's
\* variable (operation.<key>.set(source)) instead of the _subgraph.
DeclarationAfterSet(step, decl) ==
    IF step.command = "SET" /\ step.cls = "SetStep"
    THEN [decl EXCEPT !.history = Append(@, step.source)]
    ELSE decl

\* The declaration (the step log and the variable's history) after one pass
\* of the loop body: the body reads step and writes only internal_handles and
\* _subgraph (subgraph.py:231-242).
DeclarationAfter(step, decl) == decl

\* ------------------------------------------------------ add and the proxies
\* SubgraphNode.__init__ (subgraph.py:115-121).
SubgraphNode(func, args) == [kind |-> "node", func |-> func, args |-> args, key |-> ""]

NoNode == [kind |-> "none", func |-> [raises |-> FALSE], args |-> NoRef, key |-> ""]

\* add(func, *args, **kwargs) (subgraph.py:143-144): the node, and how often
\* func was invoked on the way.
add(func, args) == [node |-> SubgraphNode(func, args), invoked |-> 0]

\* The names normal attribute lookup finds on the instance, for which
\* __getattr__ is not consulted: the fields set by SubgraphNode.__init__
\* (subgraph.py:117-121) and those set on a new _NodeProxy (subgraph.py:104-105,
\* 134-135).
OwnAttributes(target) ==
    IF target.kind = "node" THEN {"func", "args", "kwargs", "key"}
    ELSE {"owner", "attr"}

\* getattr(target, item).  On a SubgraphNode or _NodeProxy: an instance
\* attribute is found by normal lookup and its stored value is returned (the
\* owner of a proxy is the proxied object itself); for any other name
\* __getattr__ and the registered getattr_proxy make a new _NodeProxy
\* recording owner and attribute name (subgraph.py:95-106, 123-136).  On a
\* stored value (the function, the args tuple, the kwargs dict, the key or
\* attr string) none of Items is an attribute: AttributeError.
GetAttribute(target, item) ==
    IF target.kind = "value"
    THEN [kind |-> "error", owner |-> target, attr |-> item]
    ELSE IF item \in OwnAttributes(target)
         THEN IF item = "owner"
              THEN target.owner
              ELSE [kind |-> "value", owner |-> target, attr |-> item]
         ELSE [kind |-> "proxy", owner |-> target, attr |-> item]

\* Attribute names a class body asks for.
Items == {"output", "checkpoint", "args", "owner"}

NoAccess == [target |-> NoNode, item |-> "", result |-> NoNode]

RECURSIVE Depth(_)
Depth(t) == IF t.kind \in {"proxy", "value"} THEN 1 + Depth(t.owner) ELSE 0

NoOperation == NotASubgraph
Empty == [k \in {} |-> ""]

\* ------------------------------------------------ elements of an argv list
\* An element of argv, by the isinstance tests of _parse_argv: a str, a
\* pathlib.Path, a gmxapi.abc.Future, a scalems Reference (that is not a
\* gmxapi Future), an OutputFilePlaceholder, or anything else.
StrArg(n) == [kind |-> "str", name |-> n]
PathArg(n) == [kind |-> "path", name |-> n]
FutureArg(n) == [kind |-> "future", name |-> n]
ReferenceArg(n) == [kind |-> "reference", name |-> n]
Placeholder(label) == [kind |-> "placeholder", name |-> label]
OtherArg(n) == [kind |-> "other", name |-> n]

Elements ==
    {StrArg("-i"), StrArg("-o"), PathArg("-i"), FutureArg("f1"), FutureArg("f2"),
     Placeholder("o1"), ReferenceArg("r"), OtherArg("1")}

MemberElements == {StrArg("-i"), FutureArg("f1"), Placeholder("o1")}

Executables == {StrArg("run"), PathArg("run"), StrArg("gmx")}

\* Mutant of Str: the object is kept as it is.
StrKept(e) == e

\* str(e) for a str or pathlib.Path (executable.py:173, 193): the string of
\* the same spelling.
Str(e) == [kind |-> "str", name |-> e.name]

\* get_path(placeholder): the path of the file the placeholder stands for.
get_path(arg) == [kind |-> "filepath", name |-> arg.name]

\* _GetItemFuture(owner=self, attr='file', item=item, key=flag)
\* (executable.py:58-63); width defaults to 1.
GetItemFuture(item, key) == [attr |-> "file", item |-> item, key |-> key, width |-> 1]

\* d[k] = v on a dict.
Bind(d, k, v) == [x \in DOMAIN d \cup {k} |-> IF x = k THEN v ELSE d[x]]

NoDict == [k \in {} |-> StrArg("")]
NoFlag == [kind |-> "none", name |-> ""]

\* Mutant of AlreadySet: a flag never counts as set.
AlreadySetNever(flag, files) == FALSE

\* `flag in input_files`, `flag in output_files` where a flag is read and
\* where a file of its own direction is bound (executable.py:235, 244, 258).
AlreadySet(flag, files) == flag \in DOMAIN files

\* Mutant of OtherDirection: a flag of the other direction is not noticed.
OtherDirectionNever(flag, files) == FALSE

\* `flag in input_files` before an output file is bound and `flag in
\* output_files` before an input file is (executable.py:238, 252).
OtherDirection(flag, files) == flag \in DOMAIN files

\* Mutant of Positional: the argument is put in front of the list.
PositionalFirst(arguments, previous_arg) == <<Str(previous_arg)>> \o arguments

\* arguments.append(str(previous_arg)) (executable.py:193).
Positional(arguments, previous_arg) == Append(arguments, Str(previous_arg))

\* Mutant of NoArguments: a trailing flag is accepted.
NoArgumentsAccepted(flag, previous_arg) == FALSE

\* `flag is previous_arg` (executable.py:267): the last element seen is the
\* flag itself.  previous_arg is a str only when it is the object last
\* assigned to flag, so identity and equality agree here.
NoArguments(flag, previous_arg) == flag = previous_arg

\* ------------------------------------------------------------ _parse_argv
\* The locals of _parse_argv and self.output_file; exc is the exception
\* raised, or "none".  a is the argv, 1-based: a[1] is the executable.
ParseStart(a, output_file) ==
    [exc |-> "none", arguments |-> <<>>, input_files |-> NoDict,
     output_files |-> NoDict, flag |-> NoFlag, previous_arg |-> a[2], i |-> 2,
     output_file |-> output_file]

\* One pass of the body of the first loop, on element i (executable.py:192-211).
\* The loop is left (break or raise) iff flag is set or exc is.
FirstBody(arg, i, st) ==
    IF arg.kind \in {"str", "path"}
    THEN [st EXCEPT !.arguments = Positional(@, st.previous_arg),
                    !.previous_arg = arg, !.i = i]
    ELSE IF arg.kind \in {"future", "reference"}
    THEN IF arg.kind = "future"
         THEN [st EXCEPT !.flag = st.previous_arg, !.i = i,
                         !.input_files = Bind(@, st.previous_arg, arg)]
         ELSE [st EXCEPT !.flag = st.previous_arg, !.i = i,
                         !.exc = "MissingImplementationError"]
    ELSE IF arg.kind = "placeholder"
    THEN [st EXCEPT !.flag = st.previous_arg, !.i = i,
                    !.output_files = Bind(@, st.previous_arg, get_path(arg)),
                    !.output_file = Bind(@, arg.name,
                                         GetItemFuture(arg.name, st.previous_arg))]
    ELSE [st EXCEPT !.i = i, !.exc = "ValueError"]

\* The first loop, from element i on (executable.py:191-211).
RECURSIVE FirstLoop(_, _, _)
FirstLoop(a, i, st) ==
    IF i > Len(a) \/ st.flag # NoFlag \/ st.exc # "none" THEN st
    ELSE FirstLoop(a, i + 1, FirstBody(a[i], i, st))

\* One pass of the body of the second loop (executable.py:225-265).
SecondBody(arg, st) ==
    LET next == [st EXCEPT !.previous_arg = arg]
    IN  IF arg.kind = "str"
        THEN IF st.previous_arg.kind = "str"
             THEN IF st.previous_arg # st.flag
                  THEN [st EXCEPT !.exc = "AssertionError"]
                  ELSE [st EXCEPT !.exc = "ValueError"]
             ELSE IF AlreadySet(arg, st.input_files) \/ AlreadySet(arg, st.output_files)
                  THEN [st EXCEPT !.flag = arg, !.exc = "ValueError"]
                  ELSE [next EXCEPT !.flag = arg]
        ELSE IF arg.kind = "placeholder"
        THEN IF OtherDirection(st.flag, st.input_files) \/ AlreadySet(st.flag, st.output_files)
             THEN [st EXCEPT !.exc = "ValueError"]
             ELSE [next EXCEPT !.output_files = Bind(@, st.flag, get_path(arg)),
                               !.output_file = Bind(@, arg.name,
                                                    GetItemFuture(arg.name, st.flag))]
        ELSE IF arg.kind = "future"
        THEN IF OtherDirection(st.flag, st.output_files) \/ AlreadySet(st.flag, st.input_files)
             THEN [st EXCEPT !.exc = "ValueError"]
             ELSE [next EXCEPT !.input_files = Bind(@, st.flag, arg)]
        ELSE [st EXCEPT !.exc = "ValueError"]

\* The second loop, from element j on (executable.py:224-265).
RECURSIVE SecondLoop(_, _, _)
SecondLoop(a, j, st) ==
    IF j > Len(a) \/ st.exc # "none" THEN st
    ELSE SecondLoop(a, j + 1, SecondBody(a[j], st))

\* _ParsedArgs (executable.py:26-32); NoParsed stands for "nothing returned".
ParsedArgs(executable, arguments, input_files, output_files) ==
    [returned |-> TRUE, executable |-> executable, arguments |-> arguments,
     input_files |-> input_files, output_files |-> output_files]

NoParsed ==
    [returned |-> FALSE, executable |-> "", arguments |-> <<>>,
     input_files |-> NoDict, output_files |-> NoDict]

\* An exception leaves _parse_argv; self.output_file keeps what was registered.
ParseRaises(exc, output_file) ==
    [exc |-> exc, parsed |-> NoParsed, output_file |-> output_file]

\* The end of _parse_argv, the second loop having ended in st2
\* (executable.py:267-275).
AfterSecondLoop(executable, st2) ==
    IF st2.exc # "none" THEN ParseRaises(st2.exc, st2.output_file)
    ELSE IF NoArguments(st2.flag, st2.previous_arg)
    THEN ParseRaises("ValueError", st2.output_file)
    ELSE [exc |-> "none", output_file |-> st2.output_file,
          parsed |-> ParsedArgs(executable, st2.arguments, st2.input_files,
                                st2.output_files)]

\* Mutant of AfterFirstLoop: the final positional argument is not appended.
AfterFirstLoopDropsLast(a, executable, st1) ==
    IF st1.exc # "none" THEN ParseRaises(st1.exc, st1.output_file)
    ELSE IF st1.flag = NoFlag
    THEN [exc |-> "none", output_file |-> st1.output_file,
          parsed |-> ParsedArgs(executable, st1.arguments, NoDict, NoDict)]
    ELSE AfterSecondLoop(executable,
            SecondLoop(a, st1.i + 1, [st1 EXCEPT !.previous_arg = a[st1.i]]))

\* _parse_argv from the end of the first loop, which ended in st1
\* (executable.py:213-275).
AfterFirstLoop(a, executable, st1) ==
    IF st1.exc # "none" THEN ParseRaises(st1.exc, st1.output_file)
    ELSE IF st1.flag = NoFlag
    THEN [exc |-> "none", output_file |-> st1.output_file,
          parsed |-> ParsedArgs(executable, Append(st1.arguments, st1.previous_arg),
                                NoDict, NoDict)]
    ELSE AfterSecondLoop(executable,
            SecondLoop(a, st1.i + 1, [st1 EXCEPT !.previous_arg = a[st1.i]]))

\* self._parse_argv(a) on an Executable whose output_file dict is output_file
\* (executable.py:157-275): the exception or the _ParsedArgs, and
\* self.output_file afterwards.
parse_argv(a, output_file) ==
    IF Len(a) = 0 THEN ParseRaises("TypeError", output_file)
    ELSE IF Len(a) = 1
    THEN [exc |-> "none", output_file |-> output_file,
          parsed |-> ParsedArgs(Str(a[1]).name, <<>>, NoDict, NoDict)]
    ELSE IF a[2].kind \notin {"str", "path"}
    THEN ParseRaises("ValueError", output_file)
    ELSE AfterFirstLoop(a, Str(a[1]).name, FirstLoop(a, 3, ParseStart(a, output_file)))

\* ------------------------------------------------- _ParsedArgs by identity
\* Mutant of default_factory: the default of a field is one object, shared by
\* every record (a mutable default value).
default_shared(h) == 1

\* field(default_factory=list), field(default_factory=dict)
\* (executable.py:28-32): the default of a field is a new object, made when
\* the record is.
default_factory(h) == Len(h) + 1

\* The list or dict of one field of a new record: the object passed, itself
\* made by `[]` or `{}` in the call of _parse_argv (executable.py:185-187), or
\* the field's default.
NewField(h, passed) == IF passed THEN Len(h) + 1 ELSE default_factory(h)

NoRecords == [heap |-> <<>>, made |-> <<>>]

\* The fields _parse_argv passes to _ParsedArgs where it returns p for the
\* argv list a: none (executable.py:176), arguments (216), or all (270-275).
Passed(a, p) ==
    IF Len(a) = 1 THEN {}
    ELSE IF DOMAIN p.input_files = {} /\ DOMAIN p.output_files = {} THEN {"arguments"}
    ELSE {"arguments", "input_files", "output_files"}

\* _ParsedArgs(...) as an object (executable.py:26-32): the records after one
\* more is made with the values p; `alone` says it was given an executable only.
ParsedArgsObject(rs, p, passed, alone) ==
    LET a == NewField(rs.heap, "arguments" \in passed)
        h1 == Store(rs.heap, a, p.arguments)
        i == NewField(h1, "input_files" \in passed)
        h2 == Store(h1, i, p.input_files)
        o == NewField(h2, "output_files" \in passed)
    IN  [heap |-> Store(h2, o, p.output_files),
         made |-> Append(rs.made,
                     [executable |-> p.executable, arguments |-> a, input_files |-> i,
                      output_files |-> o, alone |-> alone])]

\* ------------------------------------------------------- Executable.create
NoKwargs == NoParsed

\* Executable() (executable.py:83-86); instances counts the calls of
\* gmxapi.commandline_operation made for it (_instance is None iff 0).
Executable == [made |-> TRUE, output_file |-> Empty, instances |-> 0, kwargs |-> NoKwargs]

NoCmd == [made |-> FALSE, output_file |-> Empty, instances |-> 0, kwargs |-> NoKwargs]

\* The comprehension after one more member, whose _parse_argv ended in r.
Collect(acc, r) ==
    [exc |-> r.exc, output_file |-> r.output_file,
     kwargs_list |-> IF r.exc = "none" THEN Append(acc.kwargs_list, r.parsed)
                     ELSE acc.kwargs_list]

\* cmd._parse_argv(element) for member k, on the same Executable as the
\* members before it (executable.py:129).
ParseMember(members, k, acc) == Collect(acc, parse_argv(members[k], acc.output_file))

\* kwargs_list = [cmd._parse_argv(element) for element in argv]
\* (executable.py:129): the members are parsed in order; the first exception
\* ends the comprehension.
ParseAll(members, start) ==
    LET after[k \in 0..Len(members)] ==
            IF k = 0 THEN start
            ELSE IF after[k - 1].exc # "none" THEN after[k - 1]
            ELSE ParseMember(members, k, after[k - 1])
    IN  after[Len(members)]

\* Mutant of SameExecutable: any mix of executables is accepted.
SameExecutableAny(kwargs_list) == TRUE

\* all(_executable == kwargs.executable for kwargs in kwargs_list)
\* (executable.py:130-131).
SameExecutable(kwargs_list) ==
    \A k \in 1..Len(kwargs_list) : kwargs_list[1].executable = kwargs_list[k].executable

Max(S) == CHOOSE x \in S : \A y \in S : y <= x

\* max(len(item) for item in cmd._kwargs.values() if isinstance(item, list))
\* (executable.py:152): for one argv the only list is arguments; for an
\* ensemble arguments, input_files and output_files are lists.
Width(kwargs, ensemble) ==
    IF ensemble
    THEN Max({Len(kwargs.arguments), Len(kwargs.input_files), Len(kwargs.output_files)})
    ELSE Len(kwargs.arguments)

\* for future in cmd.output_file.values(): future.description._width = width
\* (executable.py:153-154).
WithWidth(output_file, width) ==
    [item \in DOMAIN output_file |-> [output_file[item] EXCEPT !.width = width]]

\* The lists of create's ensemble branch (executable.py:130, 135-137).
EnsembleKwargs(kwargs_list) ==
    ParsedArgs(kwargs_list[1].executable,
               [k \in 1..Len(kwargs_list) |-> kwargs_list[k].arguments],
               [k \in 1..Len(kwargs_list) |-> kwargs_list[k].input_files],
               [k \in 1..Len(kwargs_list) |-> kwargs_list[k].output_files])

\* create from line 144 on: cmd._kwargs is set and the width is recorded on
\* the registered futures (executable.py:144-155).
Finish(output_file, kwargs, ensemble) ==
    [exc |-> "none",
     cmd |-> [Executable EXCEPT !.kwargs = kwargs,
                 !.output_file = WithWidth(output_file, Width(kwargs, ensemble))]]

\* Mutant of task: gmxapi.commandline_operation is called on every access.
taskUncached(c) == [c EXCEPT !.instances = @ + 1]

\* The Executable after self.task was read (executable.py:88-94): the
\* operation is instantiated if self._instance is None, and kept.
task(c) == [c EXCEPT !.instances = IF @ = 0 THEN 1 ELSE @]

\* An exception leaves create; the Executable made at line 123 is dropped.
CreateRaises(exc, output_file) ==
    [exc |-> exc, cmd |-> [Executable EXCEPT !.output_file = output_file]]

\* create's ensemble branch, the comprehension having ended in all
\* (executable.py:130-137, 144-155).
CreateEnsemble(all) ==
    IF all.exc # "none" THEN CreateRaises(all.exc, all.output_file)
    ELSE IF ~SameExecutable(all.kwargs_list)
    THEN CreateRaises("ValueError", all.output_file)
    ELSE Finish(all.output_file, EnsembleKwargs(all.kwargs_list), TRUE)

\* create's other branch, _parse_argv having ended in r (executable.py:139-155).
CreateSingle(r) ==
    IF r.exc # "none" THEN CreateRaises(r.exc, r.output_file)
    ELSE Finish(r.output_file, r.parsed, FALSE)

\* Executable.create(argv) with stdin and env None (executable.py:104-155):
\* the exception or the Executable returned.  av.ensemble says that argv[0]
\* is itself a sequence; av.members are the argv lists.
create(av) ==
    IF ~av.ensemble /\ Len(av.members[1]) = 0
    THEN [exc |-> "TypeError", cmd |-> NoCmd]
    ELSE IF av.ensemble
    THEN CreateEnsemble(ParseAll(av.members,
             [exc |-> "none", output_file |-> Executable.output_file,
              kwargs_list |-> <<>>]))
    ELSE CreateSingle(parse_argv(av.members[1], Executable.output_file))

\* ---------------------------------------------------------- executable()
\* The keyword arguments of executable() that are not yet supported.
Options == {"resources", "inputs", "outputs"}

\* Mutant of NotSupported: only *resources* is checked.
NotSupportedResources(given) == "resources" \in given

\* The checks of executable() on the arguments given (executable.py:318-325).
NotSupported(given) == given \cap Options # {}

\* executable(argv, resources, inputs, outputs) (executable.py:278-328), the
\* arguments in `given` not None: the exception or the Executable returned.
executable(av, given) ==
    IF NotSupported(given)
    THEN [exc |-> "MissingImplementationError", cmd |-> NoCmd]
    ELSE create(av)

\* ------------------------------------------------------------- result()
\* _GetItemFuture.result() on the Executable c after self._owner.task was
\* read (executable.py:72-76): the item under self._key of the file output of
\* the gmxapi operation that c holds.
FutureResult(c, item) ==
    [item |-> item, key |-> c.output_file[item].key, instance |-> c.instances]

\* The frames of a Reference.result() call after one more step
\* (_abc.py:43-44): the body calls self.result() again, and the interpreter
\* ends the call in a RecursionError when no frame is left.
ResultFrame(n) == IF n < RecursionLimit THEN n + 1 ELSE 0

\* The argv lists of at most n elements over the elements E.
ArgvOver(E, n) ==
    {<<>>} \cup {<<exe>> \o rest : exe \in Executables, rest \in SeqsUpTo(E, n - 1)}

\* The *argv* arguments tried: one argv list of at most n elements, or an
\* ensemble of one or two argv lists of at most m elements.
ArgvInputs(n, m) ==
    {[ensemble |-> FALSE, members |-> <<a>>] : a \in ArgvOver(Elements, n)}
    \cup {[ensemble |-> TRUE, members |-> <<a>>] :
             a \in ArgvOver(MemberElements, m) \ {<<>>}}
    \cup {[ensemble |-> TRUE, members |-> <<a, b>>] :
             a, b \in ArgvOver(MemberElements, m) \ {<<>>}}

NoArgv == [ensemble |-> FALSE, members |-> <<>>]

\* The *argv* arguments tried where the call is followed further: one argv
\* list, or an ensemble of one argv list, of at most m elements.
CallInputs(m) ==
    {[ensemble |-> FALSE, members |-> <<a>>] : a \in ArgvOver(Elements, m)}
    \cup {[ensemble |-> TRUE, members |-> <<a>>] :
             a \in ArgvOver(MemberElements, m) \ {<<>>}}

\* ----------------------------------------------------------------- Init
NoFirst ==
    [ids |-> NoTables, variables |-> Empty, handles |-> Empty, attrs |-> Empty,
     effects |-> <<>>]

\* Nothing built, called or asked for yet.
InitUse ==
    /\ records = NoRecords
    /\ options = {}
    /\ results = <<>>
    /\ frames = 0

\* The subgraph side before the class body runs, the variable's default d.
InitSubgraph(d) ==
    /\ substep_value = output_variable(d)
    /\ default = d
    /\ written = <<>>
    /\ ref = NoRef
    /\ refFresh = FALSE
    /\ operation = NoOperation
    /\ condition = Editor
    /\ max_iteration = 0
    /\ variables = Empty
    /\ internal_handles = Empty
    /\ slots = Empty
    /\ idx = 0
    /\ effects = <<>>
    /\ stack = <<>>
    /\ retval = NoValue
    /\ engineCalls = <<>>
    /\ err = "none"
    /\ heap = <<>>
    /\ tables = NoTables
    /\ first = NoFirst
    /\ calls = 0
    /\ node = NoNode
    /\ access = NoAccess
    /\ invocations = 0

Init ==
    /\ \E d \in Defaults : InitSubgraph(d)
    /\ pc = "editing"
    /\ argv = NoArgv
    /\ cmd = NoCmd
    /\ parsed = NoParsed
    /\ InitUse

\* A script about to call Executable.create or _parse_argv with some argv.
InitExec ==
    /\ InitSubgraph("")
    /\ pc = "exec"
    /\ argv \in ArgvInputs(MaxArgv, MaxMember)
    /\ cmd = NoCmd
    /\ parsed = NoParsed
    /\ InitUse

\* A script about to call _parse_argv, executable() or _ParsedArgs.
InitCall ==
    /\ InitSubgraph("")
    /\ pc = "exec"
    /\ argv \in CallInputs(MaxMember)
    /\ cmd = NoCmd
    /\ parsed = NoParsed
    /\ InitUse

\* -------------------------------------------------------------- actions
\* checkpoint.set(update) in the class body.
Set ==
    /\ pc = "editing"
    /\ Len(written) < MaxSets
    /\ \E u \in Updates :
          /\ substep_value' = EditorSet(substep_value, u)
          /\ written' = Append(written, u)
    /\ refFresh' = FALSE
    /\ UNCHANGED <<execVars, default, ref, pc, callVars, loopVars, heapVars, nodeVars,
                   invocations>>

\* checkpoint.get() in the class body.
Get ==
    /\ pc = "editing"
    /\ ref' = EditorGet(substep_value)
    /\ refFresh' = TRUE
    /\ pc' = IF ref'.ok THEN "editing" ELSE "raised"
    /\ err' = IF ref'.ok THEN err ELSE "AssertionError"
    /\ UNCHANGED <<execVars, substep_value, default, written, callVars, variables,
                   internal_handles, slots, idx, effects, stack, retval, engineCalls,
                   heapVars, nodeVars, invocations>>

\* md = add(func, checkpoint.get()) in the class body: func is a task
\* callable that may or may not raise when it is invoked.
Add ==
    /\ pc = "editing"
    /\ node.kind = "none"
    /\ \E raises \in BOOLEAN :
          LET made == add([raises |-> raises], ref)
          IN  /\ node' = made.node
              /\ invocations' = invocations + made.invoked
    /\ UNCHANGED <<execVars, editorVars, pc, callVars, loopVars, heapVars, access>>

\* An attribute access in the class body, on the node or on what the
\* previous access returned (md.output, md.output.checkpoint, md.args.output).
GetAttr ==
    /\ pc = "editing"
    /\ node.kind = "node"
    /\ \E target \in {node} \cup
                     (IF access.result.kind \in {"proxy", "value"}
                      THEN {access.result} ELSE {}),
          item \in Items :
          /\ Depth(target) < MaxChain
          /\ access' = [target |-> target, item |-> item,
                        result |-> GetAttribute(target, item)]
          /\ IF access'.result.kind = "error"
             THEN pc' = "raised" /\ err' = "AttributeError"
             ELSE UNCHANGED <<pc, err>>
    /\ UNCHANGED <<execVars, editorVars, operation, condition, max_iteration, variables,
                   internal_handles, slots, idx, effects, stack, retval, engineCalls,
                   heapVars, node, invocations>>

\* Raise exception e out of while_loop: every frame is unwound.
Raise(e) ==
    /\ pc' = "raised"
    /\ err' = e
    /\ stack' = <<>>

\* while_loop(operation=op, condition=c, max_iteration=k) up to the start of
\* the for loop (subgraph.py:219-230).
Enter(op, c, k) ==
    /\ operation' = op
    /\ condition' = c
    /\ max_iteration' = k
    /\ calls' = calls + 1
    /\ internal_handles' = Empty
    /\ slots' = Empty
    /\ idx' = 0
    /\ effects' = <<>>
    /\ retval' = NoValue
    /\ IF ~op.isSubgraph
       THEN Raise("ValueError") /\ UNCHANGED <<variables, heap, tables>>
       ELSE LET v == Alloc(heap)
                h1 == Store(heap, v, Variables(op))
                ih == Alloc(h1)
                h2 == Store(h1, ih, Empty)
                sg == Alloc(h2)
                h3 == Store(h2, sg, Empty)
            IN  /\ variables' = Variables(op)
                /\ tables' = [variables |-> v, handles |-> ih, subgraph |-> sg]
                /\ heap' = h3
                /\ IF ~op.hasDag
                   THEN Raise("AttributeError")
                   ELSE pc' = "replay" /\ err' = "none" /\ stack' = <<>>

\* The first call of while_loop, after the class body.
Call ==
    /\ pc = "editing"
    /\ \E op \in OperationsWith(ref), c \in Conditions, k \in 1..MaxIteration :
          Enter(op, c, k)
    /\ UNCHANGED <<execVars, editorVars, engineCalls, first, nodeVars, invocations>>

\* The first call of while_loop in a script that declared the task `md` with
\* add(): the step log holds the AddStep of that node, alone or followed by
\* the SetStep of checkpoint.
CallNode ==
    /\ pc = "editing"
    /\ node.kind = "node"
    /\ \E extra \in {<<>>, <<SetStep("checkpoint", Proxy)>>}, k \in 1..MaxIteration :
          Enter(Declared(FALSE, <<AddStep("md", node.func.raises, node.args)>> \o extra),
                logical_not(Editor), k)
    /\ UNCHANGED <<execVars, editorVars, engineCalls, first, nodeVars, invocations>>

\* The steps a class body records: AddStep and SetStep objects.
DeclaredSteps(r) ==
    {AddStep("md", FALSE, r), AddStep("md", TRUE, r), SetStep("checkpoint", Proxy)}

\* The first call of while_loop on a declaration whose step log holds only
\* steps a class body records, with the condition of the folding example,
\* logical_not of a variable of the class.
CallDeclared ==
    /\ pc = "editing"
    /\ \E q \in SeqsUpTo(DeclaredSteps(ref), MaxSteps), b \in BOOLEAN,
          k \in 1..MaxIteration :
          Enter(Declared(b, q), logical_not(Editor), k)
    /\ UNCHANGED <<execVars, editorVars, engineCalls, first, nodeVars, invocations>>

\* A second, independent call of while_loop on the same declaration with the
\* same arguments, once the first has ended.  What the first call built is
\* kept for comparison.
CallAgain ==
    /\ pc \in {"done", "raised"}
    /\ calls = 1
    /\ first' = [ids |-> tables, variables |-> variables,
                 handles |-> internal_handles, attrs |-> slots, effects |-> effects]
    /\ Enter(operation, condition, max_iteration)
    /\ UNCHANGED <<execVars, editorVars, engineCalls, nodeVars, invocations>>

\* One iteration of the for loop over operation.dag() (subgraph.py:230-242).
ReplayStep ==
    /\ pc = "replay"
    /\ idx < Len(operation.dag)
    /\ LET step == NextStep(operation.dag, idx)
           out == ReplayOne(step, internal_handles, slots)
           decl == DeclarationAfter(step, [dag |-> operation.dag,
                                           history |-> substep_value])
       IN  /\ internal_handles' = out.handles
           /\ slots' = out.attrs
           /\ heap' = Store(Store(heap, tables.handles, out.handles),
                            tables.subgraph, out.attrs)
           /\ effects' = IF out.applied THEN Append(effects, step) ELSE effects
           /\ invocations' = IF out.applied /\ step.command = "ADD"
                             THEN invocations + 1 ELSE invocations
           /\ operation' = [operation EXCEPT !.dag = decl.dag]
           /\ substep_value' = decl.history
           /\ idx' = idx + 1
           /\ IF out.exc # "none"
              THEN Raise(out.exc)
              ELSE UNCHANGED <<pc, err, stack>>
    /\ UNCHANGED <<execVars, default, written, ref, refFresh, condition, max_iteration,
                   variables, retval, engineCalls, tables, first, calls, nodeVars>>

\* The for loop is exhausted, the with block is left and
\* _translate_condition(condition, _subgraph) is entered (subgraph.py:244).
EnterTranslate ==
    /\ pc = "replay"
    /\ idx = Len(operation.dag)
    /\ pc' = "translate"
    /\ stack' = <<condition>>
    /\ UNCHANGED <<execVars, editorVars, callVars, variables, internal_handles, slots, idx,
                   effects, retval, engineCalls, err, heapVars, nodeVars,
                   invocations>>

\* One step of the translation (subgraph.py:174-184) and, once the outermost
\* activation has returned, the call of gmxapi.while_loop (subgraph.py:245).
Translate ==
    /\ pc = "translate"
    /\ IF retval.kind # "none"
       THEN IF stack = <<>>
            THEN /\ engineCalls' = Append(engineCalls, HandOff(retval))
                 /\ pc' = "done"
                 /\ UNCHANGED <<stack, retval, err>>
            ELSE \* the callee returned: _condition = gmxapi.logical_not(...); return
                 /\ stack' = SubSeq(stack, 1, Len(stack) - 1)
                 /\ retval' = GmxLogicalNot(retval)
                 /\ UNCHANGED <<pc, err, engineCalls>>
       ELSE LET d == Dispatch(stack[Len(stack)])
            IN  IF d.act = "raise"
                THEN Raise(d.exc) /\ UNCHANGED <<retval, engineCalls>>
                ELSE IF Len(stack) >= RecursionLimit
                     THEN Raise("RecursionError") /\ UNCHANGED <<retval, engineCalls>>
                     ELSE /\ stack' = Append(stack, d.arg)
                          /\ UNCHANGED <<pc, err, retval, engineCalls>>
    /\ UNCHANGED <<execVars, editorVars, callVars, variables, internal_handles, slots, idx,
                   effects, heapVars, nodeVars, invocations>>

Next ==
    Set \/ Get \/ Call \/ ReplayStep \/ EnterTranslate \/ Translate

Spec == Init /\ [][Next]_vars

\* A script that compiles the same declaration twice.
NextTwice ==
    Set \/ Get \/ CallDeclared \/ CallAgain \/ ReplayStep \/ EnterTranslate \/ Translate

SpecTwice == Init /\ [][NextTwice]_vars

\* A script that declares a task with add() and reads its attributes before
\* it compiles the loop.
NextNode ==
    Get \/ Add \/ GetAttr \/ CallNode \/ ReplayStep \/ EnterTranslate \/ Translate

SpecNode == Init /\ [][NextNode]_vars

\* --------------------------------------------------- executable.py actions
subgraphVars ==
    <<editorVars, callVars, variables, internal_handles, slots, idx, effects, stack,
      retval, engineCalls, heapVars, nodeVars, invocations>>

\* The call ended in r: an exception, or a value and the position `returned`.
Ends(r, returned) ==
    /\ err' = r.exc
    /\ pc' = IF r.exc = "none" THEN returned ELSE "raised"

\* Executable()._parse_argv(argv) for one argv list.
ParseArgv ==
    /\ pc = "exec"
    /\ ~argv.ensemble
    /\ \E r \in {parse_argv(argv.members[1], Executable.output_file)} :
          /\ cmd' = [Executable EXCEPT !.output_file = r.output_file]
          /\ parsed' = r.parsed
          /\ records' = IF r.exc # "none" THEN records
                        ELSE ParsedArgsObject(records, r.parsed,
                                 Passed(argv.members[1], r.parsed),
                                 Len(argv.members[1]) = 1)
          /\ Ends(r, "parsed")
    /\ UNCHANGED <<subgraphVars, argv, options, results, frames>>

\* _ParsedArgs(executable='') (test_executable.py:4-7).
BuildParsedArgs ==
    /\ pc \in {"exec", "parsed"}
    /\ Len(records.made) < MaxRecords
    /\ records' = ParsedArgsObject(records, ParsedArgs("", <<>>, NoDict, NoDict), {}, TRUE)
    /\ UNCHANGED <<subgraphVars, argv, cmd, parsed, pc, err, options, results, frames>>

\* Executable.create(argv).
Create ==
    /\ pc = "exec"
    /\ \E r \in {create(argv)} :
          /\ cmd' = r.cmd
          /\ Ends(r, "created")
    /\ UNCHANGED <<subgraphVars, argv, parsed, useVars>>

\* cmd.task on the Executable that create returned (executable.py:88-94).
Task ==
    /\ pc = "created"
    /\ frames = 0
    /\ cmd' = task(cmd)
    /\ UNCHANGED <<subgraphVars, argv, parsed, pc, err, useVars>>

NextExec == ParseArgv \/ Create \/ Task

SpecExec == InitExec /\ [][NextExec]_vars

\* executable(argv, resources=..., inputs=..., outputs=...).
ExecutableCall ==
    /\ pc = "exec"
    /\ \E given \in SUBSET Options :
          \E r \in {executable(argv, given)} :
             /\ options' = given
             /\ cmd' = r.cmd
             /\ Ends(r, "created")
    /\ UNCHANGED <<subgraphVars, argv, parsed, records, results, frames>>

\* future.result() on one of the output futures of the Executable
\* (executable.py:72-76).
GetResult ==
    /\ pc = "created"
    /\ frames = 0
    /\ Len(results) < MaxResults
    /\ \E item \in DOMAIN cmd.output_file :
          /\ cmd' = task(cmd)
          /\ results' = Append(results, FutureResult(cmd', item))
    /\ UNCHANGED <<subgraphVars, argv, parsed, pc, err, records, options, frames>>

\* One step of reference.result() on a Reference the script holds
\* (_abc.py:43-44).
ReferenceResult ==
    /\ pc = "created"
    /\ frames' = ResultFrame(frames)
    /\ pc' = IF frames' = 0 THEN "raised" ELSE pc
    /\ err' = IF frames' = 0 THEN "RecursionError" ELSE err
    /\ UNCHANGED <<subgraphVars, argv, cmd, parsed, records, options, results>>

\* A script that parses an argv list and builds records, or that calls
\* executable() and uses what it returned.
NextCall ==
    ParseArgv \/ BuildParsedArgs \/ ExecutableCall \/ Task \/ GetResult \/ ReferenceResult

SpecCall == InitCall /\ [][NextCall]_vars

\* The interpreter runs a call that has begun until it returns or raises.
SpecCallFair == SpecCall /\ WF_vars(frames > 0 /\ ReferenceResult)

\* ================================================================ claims

\* The call under way is the documented one: a Subgraph instance with a step
\* log of well-formed steps whose tasks do not raise, and a condition
\* logical_not(variable).
WellFormed(step) ==
    \/ step.cls = "AddStep" /\ step.command = "ADD" /\ ~step.raises
    \/ step.cls = "SetStep" /\ step.command = "SET"

ValidCall ==
    /\ operation.isSubgraph
    /\ operation.hasDag
    /\ \A i \in 1..Len(operation.dag) : WellFormed(operation.dag[i])
    /\ condition \in {logical_not(Descriptor), logical_not(Editor)}

\* while_loop has returned or raised.
Finished == pc \in {"done", "raised"}

\* The engine's iteration primitive, as the claims describe it: iterations are
\* run one after another; after iteration i the condition is evaluated, and
\* the loop stops when it is true or when `cap` iterations have run.
\* `trueAfter` is the first iteration after which the condition is true
\* (0: it never is).
IterationsRun(cap, trueAfter) ==
    IF trueAfter >= 1 /\ trueAfter < cap THEN trueAfter ELSE cap

\* C1: A loop compiled by while_loop(operation, condition, max_iteration=K)
\* stops after at most K iterations whatever the condition does, and the cap
\* the engine is given is exactly the caller's K.  Stated on a finished call:
\* the engine holds one loop, its cap is K, and no run of it exceeds K.
C1_LoopBoundedByCallersCap ==
    (Finished /\ ValidCall) =>
        /\ Len(engineCalls) = 1
        /\ engineCalls[1].max_iteration = max_iteration
        /\ \A t \in 0..(max_iteration + 1) :
              IterationsRun(engineCalls[1].max_iteration, t) <= max_iteration

\* C2: A compiled loop with max_iteration = K whose condition never becomes
\* true performs exactly K iterations and then stops.
C2_ExactlyKIterations ==
    (Finished /\ ValidCall) =>
        /\ engineCalls # <<>>
        /\ IterationsRun(engineCalls[Len(engineCalls)].max_iteration, 0)
              = max_iteration

\* C3: A compiled loop whose condition becomes true after iteration j < K
\* stops at iteration j; iterations j+1..K are not performed.
C3_StopsWhenConditionHolds ==
    (Finished /\ ValidCall) =>
        /\ engineCalls # <<>>
        /\ \A n \in 1..Len(engineCalls), j \in 1..(max_iteration - 1) :
              IterationsRun(engineCalls[n].max_iteration, j) = j

\* The scenario of C4 has been replayed: the class body read checkpoint.get()
\* before any set, the step log adds the task `md` with that reference as its
\* input and then sets checkpoint from md's output, and the for loop is done.
CheckpointScenarioReplayed ==
    /\ pc = "translate"
    /\ ref.kind = "ref" /\ ref.substep = 0
    /\ written = <<Proxy>>
    /\ operation.dag = <<AddStep("md", FALSE, ref), SetStep("checkpoint", Proxy)>>

\* What the task `md` of the replayed loop body receives as its input in
\* iteration n.  An input bound to the loop's state slot follows the slot: the
\* default in iteration 1, afterwards what iteration n-1 wrote (the source
\* recorded for the slot, as produced by iteration n-1).  Any other input is
\* the same captured value in every iteration.
Received(n) ==
    LET input == internal_handles["md"].input
    IN  IF input.kind = "slot"
        THEN IF n = 1 THEN [value |-> default, iteration |-> 0]
             ELSE [value |-> slots["checkpoint"], iteration |-> n - 1]
        ELSE [value |-> input.referent, iteration |-> 0]

\* C4: with variable checkpoint (default D), a task taking checkpoint.get()
\* and then checkpoint.set(task.output.x): the task receives D in iteration 1
\* and, in every iteration n+1, the value written to checkpoint in iteration
\* n, never the original default.
C4_NextIterationSeesWrittenCheckpoint ==
    CheckpointScenarioReplayed =>
        /\ Received(1) = [value |-> default, iteration |-> 0]
        /\ \A n \in 1..(max_iteration - 1) :
              Received(n + 1) = [value |-> Proxy, iteration |-> n]

\* C5: while_loop replays the step log in declaration order: the effects that
\* have taken place are always the first steps of operation.dag(), in the
\* log's order and one effect per step; every step the loop has passed without
\* raising has had its effect; and when the loop is exhausted every step has
\* been applied exactly once.
C5_ReplayInDeclarationOrder ==
    /\ Len(effects) <= Len(operation.dag)
    /\ effects = SubSeq(operation.dag, 1, Len(effects))
    /\ pc \in {"replay", "translate", "done"} => Len(effects) = idx
    /\ pc \in {"translate", "done"} => effects = operation.dag

\* C5 witness: a two-step log of different steps has been replayed to its end.
C5_Witness ==
    /\ pc = "translate"
    /\ Len(operation.dag) = 2
    /\ operation.dag[1] # operation.dag[2]
    /\ effects = operation.dag

\* C6: after set(v1), ..., set(vn) with n >= 1, a following get() returns a
\* reference whose referent is vn, the most recent write.
C6_GetSeesLastWrite ==
    (refFresh /\ written # <<>>) => ref.referent = written[Len(written)]

\* C6 witness: two different values were set and get() returned the second.
C6_Witness ==
    /\ refFresh
    /\ Len(written) = 2
    /\ written[1] # written[2]
    /\ written[2] # default
    /\ ref.referent = written[2]

\* C7: a variable created with default D on which set was never called
\* yields from get() a reference with substep 0 and referent D.
C7_DefaultAtSubstepZero ==
    (refFresh /\ written = <<>>) =>
        /\ ref.ok
        /\ ref.substep = 0
        /\ ref.referent = default

\* C7 witness: get() on a never-set variable whose default is not the empty one.
C7_Witness ==
    /\ refFresh
    /\ written = <<>>
    /\ default = "d0"
    /\ ref.referent = "d0"

\* C8: each set call appends exactly one entry to the history, get() leaves
\* the history alone, and the substep get() reports equals the number of set
\* calls made so far: the history is always the default followed by the set
\* arguments in call order, and a reference obtained since the last set
\* carries the number of sets as its substep.
C8_SubstepCountsSets ==
    /\ substep_value = <<default>> \o written
    /\ refFresh => ref.substep = Len(written)

\* C8 witness: get() after two set calls reported substep 2.
C8_Witness ==
    /\ refFresh
    /\ Len(written) = 2
    /\ ref.substep = 2
    /\ Len(substep_value) = 3

\* C9: translating logical_not(source) terminates: every nested activation
\* of _translate_condition works on the source of the annotation its caller
\* is translating, and the translation does not run out of frames.
C9_TranslationRecursesOnSource ==
    /\ \A i \in 2..Len(stack) : stack[i] = stack[i - 1].source
    /\ err # "RecursionError"

\* C10: for a valid declaration with a logical_not(variable) condition, one
\* call of while_loop reaches gmxapi.while_loop exactly once, after the whole
\* step log has been replayed and the condition translated, and never before
\* or during the replay.
C10_OneHandOffAfterReplay ==
    /\ (Finished /\ ValidCall) => (pc = "done" /\ Len(engineCalls) = 1)
    /\ engineCalls # <<>> =>
          /\ pc = "done"
          /\ idx = Len(operation.dag)
          /\ effects = operation.dag
          /\ stack = <<>>

\* The condition is one _translate_condition has no translation for: an
\* annotation with a transformation other than 'logical_not', or an object
\* that is neither a descriptor nor an annotation.
Unsupported(c) ==
    \/ c.type = "annotation" /\ c.transformation # "logical_not"
    \/ c.type \notin {"descriptor", "annotation"}

\* The operation passes the checks before the translation: it is a Subgraph
\* instance with a dag() whose steps all replay without raising.
ReplayPasses ==
    /\ operation.isSubgraph
    /\ operation.hasDag
    /\ \A i \in 1..Len(operation.dag) : WellFormed(operation.dag[i])

\* C11: a condition annotation whose transformation is not 'logical_not', and
\* a condition of an unhandled type, make while_loop raise: the call never
\* returns normally, gmxapi.while_loop is never invoked, and when the replay
\* itself passes the error is the ValueError of _translate_condition.
C11_UnsupportedConditionRaises ==
    (pc # "editing" /\ Unsupported(condition)) =>
        /\ engineCalls = <<>>
        /\ pc # "done"
        /\ Finished => err # "none"
        /\ (Finished /\ ReplayPasses) => err = "ValueError"

\* C11 witness: a two-step log was replayed and the translation of a
\* 'logical_and' annotation raised ValueError.
C11_Witness ==
    /\ pc = "raised"
    /\ ReplayPasses
    /\ Len(effects) = 2
    /\ condition = ConditionAnnotation(Descriptor, "logical_and")
    /\ err = "ValueError"
    /\ engineCalls = <<>>

\* C14: the state slots given to the engine are exactly the variables declared
\* with output_variable, each under its attribute name and seeded with its
\* declared default: here the one slot checkpoint |-> default.
C14_SlotsAreDeclaredVariables ==
    pc \in {"replay", "translate", "done"} =>
        variables = [k \in {"checkpoint"} |-> default]

\* C15: while_loop called with the Subgraph subclass itself as operation (an
\* object that is no instance of Subgraph) does not raise and produces a loop
\* with an empty state-slot set.
C15_ClassAsOperationCompiles ==
    (Finished /\ ~operation.isSubgraph) =>
        /\ pc = "done"
        /\ err = "none"
        /\ Len(engineCalls) = 1
        /\ engineCalls[1].variables = Empty

C13_CompilationLeavesDeclarationUnchanged ==
    /\ [][pc # "editing" =>
            /\ operation'.dag = operation.dag
            /\ substep_value' = substep_value
            /\ default' = default]_vars
    /\ []((calls = 2 /\ pc = "translate") => effects = first.effects)

\* Both compilations replayed a two-step log holding a SET step, on a
\* variable with a written history.
C13_Witness ==
    /\ calls = 2
    /\ pc = "translate"
    /\ Len(effects) = 2
    /\ effects = first.effects
    /\ \E i \in 1..Len(effects) : effects[i].command = "SET"
    /\ Len(written) >= 1

\* The AddStep entries among a sequence of replayed steps.
AddsIn(steps) == {i \in 1..Len(steps) : steps[i].command = "ADD" /\ steps[i].cls = "AddStep"}

\* C16: declaration is lazy and unchecked: add() returns a node without
\* invoking func; every attribute access in a chain on the node or on its
\* proxies returns a new proxy recording owner and attribute name, without
\* raising and without invoking func; func is invoked only when while_loop
\* replays the AddStep.
C16_DeclarationLazyAndUnchecked ==
    /\ pc = "editing" => invocations = 0
    /\ invocations = Cardinality(AddsIn(effects))
    /\ node.kind = "node" /\ pc \in {"editing", "raised"} /\ calls = 0 =>
          err = "none"
    /\ access.item # "" =>
          access.result = [kind |-> "proxy", owner |-> access.target,
                           attr |-> access.item]

\* ------------------------------------------------ claims on executable.py
\* The argv of a call on one argv list that has ended.
OneArgv == argv.members[1]
CallEnded == pc \in {"parsed", "created", "raised"} /\ ~argv.ensemble
Returned == pc \in {"parsed", "created"} /\ ~argv.ensemble
\* What _parse_argv returned, directly or inside create.
Result == IF pc = "parsed" THEN parsed ELSE cmd.kwargs

IsText(e) == e.kind \in {"str", "path"}
IsValue(e) == e.kind \in {"future", "placeholder"}

\* Index of the first element after the executable that is no str or Path;
\* 0 if there is none.
FirstNonText(a) ==
    LET N == {j \in 2..Len(a) : ~IsText(a[j])}
    IN  IF N = {} THEN 0 ELSE CHOOSE j \in N : \A k \in N : j <= k

\* a is [exe, p1..pk, flag, value, flag, value, ...]: at least one pair, every
\* flag a str, every value a Future or an output placeholder.
PairForm(a) ==
    LET v == FirstNonText(a)
    IN  /\ v >= 3
        /\ (Len(a) - v) % 2 = 0
        /\ a[v - 1].kind = "str"
        /\ \A p \in v..Len(a) :
              IF (p - v) % 2 = 0 THEN IsValue(a[p]) ELSE a[p].kind = "str"

FlagPositions(a) == {p \in FirstNonText(a) - 1..Len(a) - 1 : (p - FirstNonText(a)) % 2 = 1}
DistinctFlags(a) == \A p, q \in FlagPositions(a) : a[p] = a[q] => p = q

\* The mapping from the flags followed by a value of the given kind to
\* what Conv makes of that value.
ExpectedFiles(a, kind, Conv(_)) ==
    LET F == {p \in FlagPositions(a) : a[p + 1].kind = kind}
    IN  [f \in {a[p] : p \in F} |-> Conv(a[(CHOOSE p \in F : a[p] = f) + 1])]

Same(e) == e

\* C17 as stated: every argv of the pair form parses to executable = str(exe),
\* arguments = [p1..pk], input_files = the flags followed by a Future mapped
\* to it, output_files = the flags followed by a placeholder mapped to its
\* path.
C17_PairFormParses ==
    (CallEnded /\ PairForm(OneArgv)) =>
        /\ Returned
        /\ Result = ParsedArgs(Str(OneArgv[1]).name,
                        SubSeq(OneArgv, 2, FirstNonText(OneArgv) - 2),
                        ExpectedFiles(OneArgv, "future", Same),
                        ExpectedFiles(OneArgv, "placeholder", get_path))

\* C17 amended: every argv of the pair form whose flags are pairwise distinct
\* parses to executable = str(exe), arguments = [str(p1)..str(pk)],
\* input_files = the flags followed by a Future mapped to it, output_files =
\* the flags followed by a placeholder mapped to its path.
C17_DistinctPairFormParses ==
    (CallEnded /\ PairForm(OneArgv) /\ DistinctFlags(OneArgv)) =>
        /\ Returned
        /\ Result = ParsedArgs(Str(OneArgv[1]).name,
                        [j \in 1..FirstNonText(OneArgv) - 3 |->
                            [kind |-> "str", name |-> OneArgv[j + 1].name]],
                        ExpectedFiles(OneArgv, "future", Same),
                        ExpectedFiles(OneArgv, "placeholder", get_path))

\* ["run", "-i", future, "-o", placeholder] has been parsed.
C17_Witness ==
    /\ pc = "parsed"
    /\ OneArgv = <<StrArg("run"), StrArg("-i"), FutureArg("f1"), StrArg("-o"),
                   Placeholder("o1")>>
    /\ parsed.arguments = <<>>
    /\ parsed.input_files = Bind(NoDict, StrArg("-i"), FutureArg("f1"))
    /\ parsed.output_files = Bind(NoDict, StrArg("-o"), get_path(Placeholder("o1")))

\* The members of an ensemble do not all name the same executable.
MixedExecutables ==
    /\ argv.ensemble
    /\ \E k \in 1..Len(argv.members) :
          Str(argv.members[k][1]).name # Str(argv.members[1][1]).name
MembersParse == \A k \in 1..Len(argv.members) : parse_argv(argv.members[k], Empty).exc = "none"

\* C18: Executable.create on a list of argv lists that do not all name the
\* same executable raises (ValueError, when every member parses), and no
\* task has been instantiated; a task is only ever instantiated for an
\* Executable that create returned.
C18_MixedExecutablesRaise ==
    /\ (MixedExecutables /\ pc # "exec") =>
          /\ pc = "raised"
          /\ cmd.instances = 0
          /\ MembersParse => err = "ValueError"
    /\ cmd.instances > 0 => (pc = "created" /\ ~MixedExecutables)

C18_Witness ==
    /\ pc = "raised"
    /\ err = "ValueError"
    /\ MixedExecutables
    /\ MembersParse
    /\ \A k \in 1..Len(argv.members) : Len(argv.members[k]) = 3
    /\ cmd.instances = 0

\* The I/O section (from the first flag on) has a value right after a value.
TwoValues(a) ==
    \E j \in FirstNonText(a)..Len(a) - 1 : IsValue(a[j]) /\ IsValue(a[j + 1])
\* The I/O section has the same flag twice.
SameFlagTwice(a) ==
    \E p, q \in FirstNonText(a) - 1..Len(a) : p < q /\ IsText(a[p]) /\ a[p] = a[q]
\* The first I/O value has been seen: positional strings, then a Future or
\* a placeholder.
ReachesIO(a) == FirstNonText(a) >= 3 /\ IsValue(a[FirstNonText(a)])

C20_FlagWithoutValueRaises ==
    (/\ CallEnded
     /\ ReachesIO(OneArgv)
     /\ \/ OneArgv[Len(OneArgv)].kind = "str"
        \/ \E j \in FirstNonText(OneArgv) + 1..Len(OneArgv) - 1 :
              OneArgv[j].kind = "str" /\ OneArgv[j + 1].kind = "str") =>
        /\ pc = "raised"
        /\ err = "ValueError"
        /\ ~parsed.returned
        /\ ~cmd.kwargs.returned

\* ["run", "-i", f1, "-o"] has raised.
C20_Witness ==
    /\ pc = "raised"
    /\ err = "ValueError"
    /\ OneArgv = <<StrArg("run"), StrArg("-i"), FutureArg("f1"), StrArg("-o")>>
    /\ ~parsed.returned

\* What str() makes of a str or a pathlib.Path: the string of that spelling.
Spelled(e) == [kind |-> "str", name |-> e.name]

\* The first I/O flag of a parsed argv: the element before the first
\* Future or placeholder; one past the end when there is none.
FirstFlag(a) == IF FirstNonText(a) = 0 THEN Len(a) + 1 ELSE FirstNonText(a) - 1

C27_EveryElementAccounted ==
    Returned =>
        Len(Result.arguments)
          + 2 * (Cardinality(DOMAIN Result.input_files)
                 + Cardinality(DOMAIN Result.output_files))
        = Len(OneArgv) - 1

\* ["run", flag, value, flag, value] with an input and an output has been parsed.
C27_Witness ==
    /\ pc = "parsed"
    /\ Len(OneArgv) = 5
    /\ Len(parsed.arguments) = 0
    /\ Cardinality(DOMAIN parsed.input_files) = 1
    /\ Cardinality(DOMAIN parsed.output_files) = 1

\* C28: in every successful _parse_argv result the key sets of input_files
\* and output_files are disjoint.
C28_InputAndOutputFlagsDisjoint ==
    Returned => DOMAIN Result.input_files \cap DOMAIN Result.output_files = {}

\* A parse with an input flag and an output flag has returned.
C28_Witness ==
    /\ pc = "parsed"
    /\ DOMAIN parsed.input_files = {StrArg("-o")}
    /\ DOMAIN parsed.output_files = {StrArg("-i")}

\* C29: after Executable.create succeeds, the width recorded on every
\* registered output-file future equals the ensemble size: 1 for a single
\* argv whatever its number of positional arguments, N for a list of N argv
\* lists.
C29_WidthIsEnsembleSize ==
    pc = "created" =>
        \A item \in DOMAIN cmd.output_file :
            cmd.output_file[item].width =
                IF argv.ensemble THEN Len(argv.members) ELSE 1


\* The list and dict objects that record k holds.
Collections(k) ==
    {records.made[k].arguments, records.made[k].input_files, records.made[k].output_files}

\* C25: a _ParsedArgs built from an executable alone has no positional
\* arguments, no input-file flags and no output-file flags; _parse_argv on an
\* argv list that holds only the executable returns such a record, its
\* executable the string of argv[0]; and no list or dict of one record is a
\* list or dict of another record.
C25_ExecutableAloneIsEmptyAndUnshared ==
    /\ \A k \in 1..Len(records.made) :
          /\ records.made[k].alone =>
                /\ Len(records.heap[records.made[k].arguments]) = 0
                /\ DOMAIN records.heap[records.made[k].input_files] = {}
                /\ DOMAIN records.heap[records.made[k].output_files] = {}
          /\ \A l \in 1..Len(records.made) :
                l # k => Collections(k) \cap Collections(l) = {}
    /\ (pc = "parsed" /\ Len(OneArgv) = 1) =>
          /\ parsed.executable = OneArgv[1].name
          /\ Len(parsed.arguments) = 0
          /\ DOMAIN parsed.input_files = {}
          /\ DOMAIN parsed.output_files = {}
          /\ \E k \in 1..Len(records.made) :
                records.made[k].alone /\ records.made[k].executable = parsed.executable

\* _parse_argv(["gmx"]) returned and _ParsedArgs(executable='') was built too.
C25_Witness ==
    /\ pc = "parsed"
    /\ OneArgv = <<StrArg("gmx")>>
    /\ Len(records.made) = 2
    /\ records.made[1].executable = ""
    /\ records.made[2].executable = "gmx"


\* C22: executable() called with resources, inputs or outputs not None raises
\* MissingImplementationError at once, whatever argv is: argv is not parsed
\* (no output future is registered, no TypeError or ValueError of the parser
\* is seen), no Executable is made and no task is instantiated.
C22_UnsupportedOptionsRaiseFirst ==
    options # {} =>
        /\ pc = "raised"
        /\ err = "MissingImplementationError"
        /\ ~cmd.made
        /\ cmd.instances = 0
        /\ DOMAIN cmd.output_file = {}
        /\ ~parsed.returned

\* executable(["run", "-o", output_file("o1")], outputs=...) has raised.
C22_Witness ==
    /\ options = {"outputs"}
    /\ err = "MissingImplementationError"
    /\ argv = [ensemble |-> FALSE,
               members |-> <<<<StrArg("run"), StrArg("-o"), Placeholder("o1")>>>>]


\* C23: result() may be called repeatedly: gmxapi.commandline_operation is
\* called at most once for an Executable, by the first read of task (by
\* task, run(), done() or an output future's result()); every result() call
\* reads from that one instance, and two result() calls on the same future
\* return the same value.
C23_TaskInstantiatedOnce ==
    /\ cmd.instances <= 1
    /\ \A i \in 1..Len(results) :
          /\ cmd.instances = 1
          /\ results[i].instance = cmd.instances
          /\ \A j \in 1..Len(results) :
                results[i].item = results[j].item => results[i] = results[j]

\* result() was called twice on the same output future.
C23_Witness ==
    /\ pc = "created"
    /\ Len(results) = 2
    /\ results[1].item = results[2].item
    /\ cmd.instances = 1


C26_HistoryNeverEmpty ==
    /\ Len(substep_value) >= 1
    /\ substep_value[1] = default
    /\ ref.kind = "ref" => ref.ok /\ ref.substep >= 0

\* get() between two set calls: the reference is of substep 1, the history
\* holds three entries.
C26_Witness ==
    /\ ref.kind = "ref"
    /\ ref.ok
    /\ ref.substep = 1
    /\ ~refFresh
    /\ Len(substep_value) = 3

====
